---- MODULE Spec2Model ----
(***************************************************************************)
(* fix_html_entities.py: fix_anndoc(plain.html, ann.json).                 *)
(*                                                                         *)
(* Strings are sequences of one-character strings.  Offsets are 0-based,   *)
(* as in Python; sequence indexes are 1-based, so the character at offset  *)
(* o of s is s[o + 1].                                                     *)
(***************************************************************************)
EXTENDS Integers, Sequences, FiniteSets, TLC

VARIABLES
    plain_html,             \* the elements with an id of plain.html: <<[id, string]>>
    annjson_file,           \* annjson["entities"] as stored in the ann.json file read
    entities,               \* the entity dicts of annjson["entities"] (mutated in place)
    pc,                     \* "parts" | "entities" | "returned" | "raised"
    part_no,                \* parts of find_all(id=^s) already iterated
    were_changes_made,
    fixed_entities,         \* references (indexes into entities) in output order
    part_entities,          \* references to the entities of the current part, sorted
    e_no,                   \* entities of part_entities already iterated
    subs,
    subs_index,
    adjusted_offset_so_far,
    result,                 \* [kind |-> "pending" | "none" | "annjson" | "raised", entities]
    reapplied               \* the ann.json read is the output of a previous call

vars == <<plain_html, annjson_file, entities, pc, part_no, were_changes_made,
          fixed_entities, part_entities, e_no, subs, subs_index,
          adjusted_offset_so_far, result, reapplied>>

-----------------------------------------------------------------------------
(* Bounds of the inputs.                                                   *)

MaxTokens == 3      \* tokens (plain characters, entity literals) of a one-part text
MaxAnns == 2        \* annotations of an ann.json
MaxParts == 2       \* elements of a several-part plain.html

-----------------------------------------------------------------------------
(* Regular expressions.                                                    *)

\* The character class [#xa-zA-Z0-9], over the characters the texts use.
BodyChars == {"#", "x", "a", "l", "m", "p", "t", "g", "s", "i", "d"}

RECURSIVE BodyRun(_, _)
\* Length of the longest run of class characters of s from index i on ([...]+).
BodyRun(s, i) ==
    IF i <= Len(s) /\ s[i] \in BodyChars THEN 1 + BodyRun(s, i + 1) ELSE 0

\* r"&[#xa-zA-Z0-9]+;" anchored at index i: index of the closing ";", else 0.
\* The class excludes ";", so only the longest run can be followed by it.
MatchEnd(s, i) ==
    LET n == BodyRun(s, i + 1)
    IN  IF /\ s[i] = "&"
           /\ n >= 1
           /\ i + 1 + n <= Len(s)
           /\ s[i + 1 + n] = ";"
        THEN i + 1 + n
        ELSE 0

RECURSIVE FindIter(_, _)
\* re.finditer(r"&[#xa-zA-Z0-9]+;", s): leftmost non-overlapping matches from
\* index i on, each with match.start(), match.end() and match.group(0).
FindIter(s, i) ==
    IF i > Len(s) THEN <<>>
    ELSE LET e == MatchEnd(s, i)
         IN  IF e > 0
             THEN <<[start |-> i - 1, end |-> e, group |-> SubSeq(s, i, e)]>>
                  \o FindIter(s, e + 1)
             ELSE FindIter(s, i + 1)

Amp == <<"&", "a", "m", "p", ";">>

\* re.search(r"&amp;[#xa-zA-Z0-9]+;", h)
SearchDoubleEscaped(h) ==
    \E i \in 1..Len(h) :
        /\ i + 4 <= Len(h)
        /\ SubSeq(h, i, i + 4) = Amp
        /\ LET n == BodyRun(h, i + 5)
           IN  /\ n >= 1
               /\ i + 5 + n <= Len(h)
               /\ h[i + 5 + n] = ";"

-----------------------------------------------------------------------------
(* BeautifulSoup: serialization and entity decoding.                       *)

\* The "minimal" output formatter: & < > are written as entities.
EscapeChar(c) ==
    IF c = "&" THEN Amp
    ELSE IF c = "<" THEN <<"&", "l", "t", ";">>
    ELSE IF c = ">" THEN <<"&", "g", "t", ";">>
    ELSE <<c>>

RECURSIVE EscapeText(_)
EscapeText(s) ==
    IF s = <<>> THEN <<>> ELSE EscapeChar(Head(s)) \o EscapeText(Tail(s))

\* str(part): the element written back as markup, its text escaped.
PartHtmlString(part) ==
    <<"<", "p", " ", "i", "d", "=", "\"">> \o part.id \o <<"\"", ">">>
    \o EscapeText(part.string) \o <<"<", "/", "p", ">">>

\* BeautifulSoup(literal, "html.parser").string: a known reference is its
\* character; an unknown one stays text of several characters ("&name").
DecodeEntity(literal) ==
    LET name == SubSeq(literal, 2, Len(literal) - 1)
    IN  IF name = <<"a", "m", "p">> THEN <<"&">>
        ELSE IF name = <<"l", "t">> THEN <<"<">>
        ELSE IF name = <<"g", "t">> THEN <<">">>
        ELSE SubSeq(literal, 1, Len(literal) - 1)

\* id=re.compile('^s')
IsSegmentId(id) == Len(id) >= 1 /\ id[1] = "s"

\* plain_html.find_all(id=re.compile('^s'))
FindAllParts(html) == SelectSeq(html, LAMBDA part : IsSegmentId(part.id))

-----------------------------------------------------------------------------
(* fix_anndoc: the correction records of a part.                           *)

\* -1 due to the symbol counted before as a single char
AdjustedOffset(group) == Len(group) - 1

WrongStart(match_start, so_far) == match_start - so_far

\* +1 due to the symbol written as a single char
WrongEnd(match_start, so_far) == match_start - so_far + 1

RECURSIVE SubsFrom(_, _, _)
\* The loop over html_entities from match k on, adjusted_offset_so_far = so_far.
SubsFrom(matches, k, so_far) ==
    IF k > Len(matches) THEN <<>>
    ELSE LET match == matches[k]
             adjusted_offset == AdjustedOffset(match.group)
             adjusted_offset_next == so_far + adjusted_offset
         IN  <<[actual_text            |-> match.group,
                actual_start           |-> match.start,
                actual_end             |-> match.end,
                adjusted_offset        |-> adjusted_offset,
                adjusted_offset_so_far |-> so_far,
                adjusted_offset_next   |-> adjusted_offset_next,
                wrong_text             |-> DecodeEntity(match.group),
                wrong_start            |-> WrongStart(match.start, so_far),
                wrong_end              |-> WrongEnd(match.start, so_far)]>>
             \o SubsFrom(matches, k + 1, adjusted_offset_next)

BuildSubs(part_string) == SubsFrom(FindIter(part_string, 1), 1, 0)

-----------------------------------------------------------------------------
(* fix_anndoc: the entities of a part.                                     *)

\* re.search(r"&amp;[#xa-zA-Z0-9]+;", str(part))
IsCorrupted(part) == SearchDoubleEscaped(PartHtmlString(part))

\* [e for e in annjson["entities"] if e["part"] == part["id"]], as references
PartEntities(ents, id) ==
    SelectSeq([i \in 1..Len(ents) |-> i], LAMBDA i : ents[i].part = id)

StartOf(ents, i) == ents[i].offsets[1].start

TextOf(ents, i) == ents[i].offsets[1].text

RECURSIVE InsertByStart(_, _, _)
\* refs, ascending by start, with i put behind every reference whose start is
\* not greater (sorted() is stable).
InsertByStart(ents, refs, i) ==
    IF refs = <<>> THEN <<i>>
    ELSE IF StartOf(ents, Head(refs)) <= StartOf(ents, i)
         THEN <<Head(refs)>> \o InsertByStart(ents, Tail(refs), i)
         ELSE <<i>> \o refs

RECURSIVE SortedByStart(_, _)
\* sorted(part_entities, key=lambda e: e["offsets"][0]["start"])
SortedByStart(ents, refs) ==
    IF refs = <<>> THEN <<>>
    ELSE InsertByStart(ents,
                       SortedByStart(ents, SubSeq(refs, 1, Len(refs) - 1)),
                       refs[Len(refs)])

-----------------------------------------------------------------------------
(* fix_anndoc: one entity against the correction records.                  *)

\* A variant of AdjustedStart: the running offset taken off the start.
AdjustedStartBackward(wrong_e_start, so_far) == wrong_e_start - so_far

AdjustedStart(wrong_e_start, so_far) == wrong_e_start + so_far

\* A variant of IsPassed: a record ending at the start itself is not passed.
IsPassedStrictly(sub, wrong_e_start) == sub.wrong_end < wrong_e_start

\* The test of the while loop that lets the cursor pass a record.
IsPassed(sub, wrong_e_start) == sub.wrong_end <= wrong_e_start

RECURSIVE RewriteStart(_, _, _, _)
\* The "while subs_index < len(subs)" loop.  adjusted_start gets the running
\* offset only on the break; when the records run out it stays the wrong start.
RewriteStart(ss, index, so_far, wrong_e_start) ==
    IF index < Len(ss)
    THEN LET sub == ss[index + 1]
         IN  IF IsPassed(sub, wrong_e_start)
             THEN RewriteStart(ss, index + 1, so_far + sub.adjusted_offset,
                               wrong_e_start)
             ELSE [subs_index             |-> index,
                   adjusted_offset_so_far |-> so_far,
                   actual_e_start         |-> AdjustedStart(wrong_e_start, so_far)]
    ELSE [subs_index             |-> index,
          adjusted_offset_so_far |-> so_far,
          actual_e_start         |-> wrong_e_start]

\* "sub and sub["wrong_end"] == wrong_char_end", sub = None past the last record
IsAtRecord(ss, index, wrong_char_end) ==
    index < Len(ss) /\ ss[index + 1].wrong_end = wrong_char_end

RECURSIVE RewriteText(_, _, _, _, _, _, _)
\* The "for char in iter(wrong_e_text)" loop from character k on.
\* asserted = FALSE: "assert char == sub["wrong_text"]" raised.
RewriteText(ss, index, so_far, wrong_e_text, k, wrong_char_end, actual_e_text) ==
    IF k > Len(wrong_e_text)
    THEN [asserted               |-> TRUE,
          subs_index             |-> index,
          adjusted_offset_so_far |-> so_far,
          actual_e_text          |-> actual_e_text]
    ELSE IF IsAtRecord(ss, index, wrong_char_end + 1)
         THEN IF <<wrong_e_text[k]>> = ss[index + 1].wrong_text
              THEN RewriteText(ss, index + 1,
                               so_far + ss[index + 1].adjusted_offset,
                               wrong_e_text, k + 1, wrong_char_end + 1,
                               actual_e_text \o ss[index + 1].actual_text)
              ELSE [asserted               |-> FALSE,
                    subs_index             |-> index,
                    adjusted_offset_so_far |-> so_far,
                    actual_e_text          |-> actual_e_text]
         ELSE RewriteText(ss, index, so_far, wrong_e_text, k + 1,
                          wrong_char_end + 1,
                          actual_e_text \o <<wrong_e_text[k]>>)

\* One iteration of "for e in part_entities" with the cursor at (index, so_far).
RewriteEntity(ss, index, so_far, wrong_e_start, wrong_e_text) ==
    LET s == RewriteStart(ss, index, so_far, wrong_e_start)
        t == RewriteText(ss, s.subs_index, s.adjusted_offset_so_far,
                         wrong_e_text, 1, wrong_e_start, <<>>)
    IN  [asserted               |-> t.asserted,
         subs_index             |-> t.subs_index,
         adjusted_offset_so_far |-> t.adjusted_offset_so_far,
         actual_e_start         |-> s.actual_e_start,
         actual_e_text          |-> t.actual_e_text]

\* e["offsets"][0]["start"] = ...; e["offsets"][0]["text"] = ...
ChangeEntity(e, actual_e_start, actual_e_text) ==
    [e EXCEPT !.offsets[1] = [start |-> actual_e_start, text |-> actual_e_text]]

\* A variant of PassThrough: the entities of the part are not kept.
PassThroughDropped(fixed, refs) == fixed

\* fixed_entities += part_entities
PassThrough(fixed, refs) == fixed \o refs

\* A variant of ChangesMade: set only for a part that has entities.
ChangesMadeIfEntities(were, corrupted, refs) == were \/ (corrupted /\ refs # <<>>)

\* were_changes_made after a part: set for a part with the pattern.
ChangesMade(were, corrupted, refs) == were \/ corrupted

\* annjson["entities"] = fixed_entities, as json.dumps writes it
DumpAnnjson(ents, fixed) == [entities |-> [k \in 1..Len(fixed) |-> ents[fixed[k]]]]

-----------------------------------------------------------------------------
(* The input files.                                                        *)

Lt == <<"&", "l", "t", ";">>

\* What a text is made of: a plain character or an entity literal.
Tokens == {<<"a">>, Amp}

RECURSIVE TextsOfLen(_)
TextsOfLen(n) ==
    IF n = 0 THEN {<<>>}
    ELSE {t \o tok : t \in TextsOfLen(n - 1), tok \in Tokens}

TextsUpTo(n) == UNION {TextsOfLen(k) : k \in 0..n}

\* Texts with entity literals of two lengths.
MixedTexts == {Lt \o Amp, Amp \o Lt \o <<"a">>, <<"a">> \o Lt \o Amp}

RECURSIVE Rendering(_, _)
\* The text as the annotation tool showed and counted it: every entity
\* occurrence as the single character it stands for.  One cell per character
\* shown: the character, its offset in the text and the text it stands for.
Rendering(s, i) ==
    IF i > Len(s) THEN <<>>
    ELSE LET e == MatchEnd(s, i)
         IN  IF e > 0 /\ Len(DecodeEntity(SubSeq(s, i, e))) = 1
             THEN <<[char    |-> DecodeEntity(SubSeq(s, i, e))[1],
                     at      |-> i - 1,
                     literal |-> SubSeq(s, i, e)]>> \o Rendering(s, e + 1)
             ELSE <<[char |-> s[i], at |-> i - 1, literal |-> <<s[i]>>]>>
                  \o Rendering(s, i + 1)

Shown(part) == Rendering(part.string, 1)

\* The offset span an annotation of n characters shown from offset a on has.
Span(part, a, n) ==
    [start |-> a, text |-> [k \in 1..n |-> Shown(part)[a + k].char]]

\* Annotations of one span: any stretch of the part as shown.
SpanEntities(part) ==
    UNION {{[part |-> part.id, offsets |-> <<Span(part, a, n)>>] :
                n \in 1..(Len(Shown(part)) - a)} :
           a \in 0..(Len(Shown(part)) - 1)}

\* Annotations of a part of a several-part document: one character shown,
\* with a second span on the first character of the part.
ShortEntities(part) ==
    {[part |-> part.id, offsets |-> <<Span(part, a, 1), Span(part, 0, 1)>>] :
        a \in 0..(Len(Shown(part)) - 1)}

\* An annotation whose part is no element of the document.
StrayEntity == [part |-> <<"s", "9">>, offsets |-> <<[start |-> 0, text |-> <<"a">>]>>]

Digit == <<"1", "2", "3", "4">>

\* The elements of a several-part document: segments with and without entity
\* occurrences, and an element whose id names no segment.
ElementKinds ==
    {[prefix |-> "s", string |-> <<"a">>],
     [prefix |-> "s", string |-> <<"&", "a">>],
     [prefix |-> "s", string |-> <<"a">> \o Amp],
     [prefix |-> "t", string |-> Lt]}

OnePartDocs ==
    {<<[id |-> <<"s", "1">>, string |-> t]>> :
        t \in TextsUpTo(MaxTokens) \cup MixedTexts}

SeveralPartDocs ==
    UNION {{[i \in 1..n |-> [id |-> <<kinds[i].prefix, Digit[i]>>,
                             string |-> kinds[i].string]] :
                kinds \in [1..n -> ElementKinds]} :
           n \in 2..MaxParts}

EntityChoices(html) ==
    IF Len(html) = 1
    THEN SpanEntities(html[1])
    ELSE UNION {ShortEntities(html[i]) : i \in 1..Len(html)} \cup {StrayEntity}

Docs == OnePartDocs \cup SeveralPartDocs

-----------------------------------------------------------------------------
(* fix_anndoc as a state machine.                                          *)

Pending == [kind |-> "pending", entities |-> <<>>]

NoChange == [kind |-> "none", entities |-> <<>>]

Raised == [kind |-> "raised", entities |-> <<>>]

Parts == FindAllParts(plain_html)

Part == Parts[part_no + 1]

\* The state on entry of fix_anndoc, the ann.json holding ents.
Enter(ents) ==
    /\ annjson_file = ents
    /\ entities = ents
    /\ pc = "parts"
    /\ part_no = 0
    /\ were_changes_made = FALSE
    /\ fixed_entities = <<>>
    /\ part_entities = <<>>
    /\ e_no = 0
    /\ subs = <<>>
    /\ subs_index = 0
    /\ adjusted_offset_so_far = 0
    /\ result = Pending

Init ==
    \E html \in Docs :
        \E n \in 0..MaxAnns :
            \E ents \in [1..n -> EntityChoices(html)] :
                /\ plain_html = html
                /\ reapplied = FALSE
                /\ Enter(ents)

\* A part without the pattern: its entities go to the output as they are.
PassThroughPart ==
    /\ pc = "parts"
    /\ part_no < Len(Parts)
    /\ ~IsCorrupted(Part)
    /\ fixed_entities' = PassThrough(fixed_entities, PartEntities(entities, Part.id))
    /\ were_changes_made' =
           ChangesMade(were_changes_made, FALSE, PartEntities(entities, Part.id))
    /\ part_entities' = PartEntities(entities, Part.id)
    /\ part_no' = part_no + 1
    /\ UNCHANGED <<plain_html, annjson_file, entities, pc, e_no, subs, subs_index,
                   adjusted_offset_so_far, result, reapplied>>

\* A part with the pattern and no annotated entities.
SkipEmptyPart ==
    /\ pc = "parts"
    /\ part_no < Len(Parts)
    /\ IsCorrupted(Part)
    /\ PartEntities(entities, Part.id) = <<>>
    /\ were_changes_made' = ChangesMade(were_changes_made, TRUE, <<>>)
    /\ part_entities' = <<>>
    /\ part_no' = part_no + 1
    /\ UNCHANGED <<plain_html, annjson_file, entities, pc, fixed_entities, e_no,
                   subs, subs_index, adjusted_offset_so_far, result, reapplied>>

\* A part with the pattern and entities: sort them, build the records.
BeginPart ==
    /\ pc = "parts"
    /\ part_no < Len(Parts)
    /\ IsCorrupted(Part)
    /\ PartEntities(entities, Part.id) # <<>>
    /\ were_changes_made' =
           ChangesMade(were_changes_made, TRUE, PartEntities(entities, Part.id))
    /\ part_entities' = SortedByStart(entities, PartEntities(entities, Part.id))
    /\ subs' = BuildSubs(Part.string)
    /\ subs_index' = 0
    /\ adjusted_offset_so_far' = 0
    /\ e_no' = 0
    /\ pc' = "entities"
    /\ UNCHANGED <<plain_html, annjson_file, entities, part_no, fixed_entities,
                   result, reapplied>>

Rewritten ==
    RewriteEntity(subs, subs_index, adjusted_offset_so_far,
                  StartOf(entities, part_entities[e_no + 1]),
                  TextOf(entities, part_entities[e_no + 1]))

\* One entity of the part rewritten; behind the last one the next part is due.
FixEntity ==
    /\ pc = "entities"
    /\ Rewritten.asserted
    /\ entities' = [entities EXCEPT ![part_entities[e_no + 1]] =
                       ChangeEntity(@, Rewritten.actual_e_start,
                                    Rewritten.actual_e_text)]
    /\ fixed_entities' = Append(fixed_entities, part_entities[e_no + 1])
    /\ subs_index' = Rewritten.subs_index
    /\ adjusted_offset_so_far' = Rewritten.adjusted_offset_so_far
    /\ e_no' = e_no + 1
    /\ IF e_no + 1 = Len(part_entities)
       THEN pc' = "parts" /\ part_no' = part_no + 1
       ELSE pc' = "entities" /\ part_no' = part_no
    /\ UNCHANGED <<plain_html, annjson_file, were_changes_made, part_entities,
                   subs, result, reapplied>>

\* assert char == sub["wrong_text"] raises: fix_anndoc returns nothing.
FailAssertion ==
    /\ pc = "entities"
    /\ ~Rewritten.asserted
    /\ pc' = "raised"
    /\ result' = Raised
    /\ UNCHANGED <<plain_html, annjson_file, entities, part_no, were_changes_made,
                   fixed_entities, part_entities, e_no, subs, subs_index,
                   adjusted_offset_so_far, reapplied>>

ReturnAnnjson ==
    /\ pc = "parts"
    /\ part_no = Len(Parts)
    /\ were_changes_made
    /\ result' = [kind |-> "annjson",
                  entities |-> DumpAnnjson(entities, fixed_entities).entities]
    /\ pc' = "returned"
    /\ UNCHANGED <<plain_html, annjson_file, entities, part_no, were_changes_made,
                   fixed_entities, part_entities, e_no, subs, subs_index,
                   adjusted_offset_so_far, reapplied>>

ReturnNone ==
    /\ pc = "parts"
    /\ part_no = Len(Parts)
    /\ ~were_changes_made
    /\ result' = NoChange
    /\ pc' = "returned"
    /\ UNCHANGED <<plain_html, annjson_file, entities, part_no, were_changes_made,
                   fixed_entities, part_entities, e_no, subs, subs_index,
                   adjusted_offset_so_far, reapplied>>

\* The output written over the ann.json, and fix_anndoc called on it again
\* with the same plain.html.
Reapply ==
    /\ pc = "returned"
    /\ result.kind = "annjson"
    /\ ~reapplied
    /\ reapplied' = TRUE
    /\ plain_html' = plain_html
    /\ annjson_file' = result.entities
    /\ entities' = result.entities
    /\ pc' = "parts"
    /\ part_no' = 0
    /\ were_changes_made' = FALSE
    /\ fixed_entities' = <<>>
    /\ part_entities' = <<>>
    /\ e_no' = 0
    /\ subs' = <<>>
    /\ subs_index' = 0
    /\ adjusted_offset_so_far' = 0
    /\ result' = Pending

Next ==
    \/ PassThroughPart
    \/ SkipEmptyPart
    \/ BeginPart
    \/ FixEntity
    \/ FailAssertion
    \/ ReturnAnnjson
    \/ ReturnNone
    \/ Reapply

Spec == Init /\ [][Next]_vars

-----------------------------------------------------------------------------
(* What the properties speak of.                                           *)

HasSegment(id) == \E k \in DOMAIN Parts : Parts[k].id = id

SegmentWith(id) == Parts[CHOOSE k \in DOMAIN Parts : Parts[k].id = id]

\* The ids of the segments with the pattern.
CorruptedIds == {Parts[k].id : k \in {j \in DOMAIN Parts : IsCorrupted(Parts[j])}}

\* The annotation read as entity i belongs to a segment with the pattern.
InCorruptedSegment(i) == annjson_file[i].part \in CorruptedIds

\* The annotations of segments with the pattern rewritten so far in this call.
FixedRefs ==
    LET ids == CorruptedIds
    IN  {i \in {fixed_entities[k] : k \in DOMAIN fixed_entities} :
            annjson_file[i].part \in ids}

SubsOf(i) == BuildSubs(SegmentWith(annjson_file[i].part).string)

ShownOf(i) == Shown(SegmentWith(annjson_file[i].part))

\* A cell of the text as shown that stands for an entity occurrence.
IsOccurrence(cell) == Len(cell.literal) > 1

RECURSIVE SumPassed(_, _, _)
\* Sum of the distortions of the records from k on whose boundary is <= w.
SumPassed(ss, k, w) ==
    IF k > Len(ss) THEN 0
    ELSE (IF ss[k].wrong_end <= w THEN ss[k].adjusted_offset ELSE 0)
         + SumPassed(ss, k + 1, w)

RECURSIVE SumSpanned(_, _, _, _)
\* Sum of the distortions of the records from k on whose boundary is in lo..hi.
SumSpanned(ss, k, lo, hi) ==
    IF k > Len(ss) THEN 0
    ELSE (IF lo <= ss[k].wrong_end /\ ss[k].wrong_end <= hi
          THEN ss[k].adjusted_offset ELSE 0)
         + SumSpanned(ss, k + 1, lo, hi)

RECURSIVE SubstitutedFrom(_, _, _, _)
\* text from character k on, the character at wrong offset p replaced by the
\* literal of the record whose boundary is p + 1, the others copied.
SubstitutedFrom(ss, start, text, k) ==
    IF k > Len(text) THEN <<>>
    ELSE (IF \E j \in DOMAIN ss : ss[j].wrong_end = start + k
          THEN ss[CHOOSE j \in DOMAIN ss : ss[j].wrong_end = start + k].actual_text
          ELSE <<text[k]>>)
         \o SubstitutedFrom(ss, start, text, k + 1)

\* Entity i rewritten alone: a fresh cursor, no running offset.
Alone(i) ==
    RewriteEntity(SubsOf(i), 0, 0, StartOf(annjson_file, i), TextOf(annjson_file, i))

-----------------------------------------------------------------------------
(* The properties.                                                         *)

\* C1: every rewritten annotation of a segment with the pattern gets the start
\* wrong start + the sum of the distortions of all records of the segment
\* whose boundary is <= the wrong start (so an annotation behind the last
\* occurrence is shifted by the total distortion of the segment).
StartIsShiftedByPassedRecords ==
    \A i \in FixedRefs :
        StartOf(entities, i) =
            StartOf(annjson_file, i)
            + SumPassed(SubsOf(i), 1, StartOf(annjson_file, i))

\* C2: two rewritten annotations of the same segment keep the order of their
\* starts: wrong start of a <= wrong start of b implies the same of the
\* starts written.
OrderIsPreserved ==
    \A a \in FixedRefs : \A b \in FixedRefs :
        (/\ annjson_file[a].part = annjson_file[b].part
         /\ StartOf(annjson_file, a) <= StartOf(annjson_file, b))
        => StartOf(entities, a) <= StartOf(entities, b)

\* C3: the start written for an annotation of a segment with the pattern is
\* never less than the start read, in the entity and in the index returned.
StartNeverMovesBackward ==
    /\ \A i \in FixedRefs : StartOf(entities, i) >= StartOf(annjson_file, i)
    /\ result.kind = "annjson" =>
           \A k \in DOMAIN fixed_entities :
               InCorruptedSegment(fixed_entities[k])
               => result.entities[k].offsets[1].start
                      >= StartOf(annjson_file, fixed_entities[k])

\* C3 happens: an index is returned in which, of two annotations of one
\* segment with two occurrences, one start was moved forward.
StartMovedForward ==
    /\ result.kind = "annjson"
    /\ \E i \in FixedRefs : \E j \in FixedRefs :
           /\ i # j
           /\ annjson_file[i].part = annjson_file[j].part
           /\ Len(SubsOf(i)) >= 2
           /\ StartOf(entities, i) > StartOf(annjson_file, i)

\* C4: the text written for an annotation of a segment with the pattern is
\* the text read with exactly the characters at a record's boundary replaced
\* by the record's entity literal, so that it is longer by the distortions
\* of the records the annotation spans.
TextIsSubstitutedAtBoundaries ==
    \A i \in FixedRefs :
        /\ TextOf(entities, i) =
               SubstitutedFrom(SubsOf(i), StartOf(annjson_file, i),
                               TextOf(annjson_file, i), 1)
        /\ Len(TextOf(entities, i)) =
               Len(TextOf(annjson_file, i))
               + SumSpanned(SubsOf(i), 1, StartOf(annjson_file, i) + 1,
                            StartOf(annjson_file, i) + Len(TextOf(annjson_file, i)))

\* The only annotation of its segment, entity i, is exactly the character
\* shown for one entity occurrence.
IsLoneOccurrence(i) ==
    /\ InCorruptedSegment(i)
    /\ Len(PartEntities(annjson_file, annjson_file[i].part)) = 1
    /\ StartOf(annjson_file, i) + 1 \in DOMAIN ShownOf(i)
    /\ IsOccurrence(ShownOf(i)[StartOf(annjson_file, i) + 1])
    /\ TextOf(annjson_file, i) = <<ShownOf(i)[StartOf(annjson_file, i) + 1].char>>

\* C5: the only annotation of a segment, spanning exactly the character shown
\* for one entity occurrence, is rewritten to the entity literal of the
\* occurrence and to the offset of the occurrence in the text.
LoneOccurrenceRoundTrip ==
    \A i \in FixedRefs :
        IsLoneOccurrence(i) =>
            /\ TextOf(entities, i) = ShownOf(i)[StartOf(annjson_file, i) + 1].literal
            /\ StartOf(entities, i) = ShownOf(i)[StartOf(annjson_file, i) + 1].at

\* C5 happens: such an annotation was rewritten, its occurrence right behind
\* another occurrence.
LoneOccurrenceAfterAdjacentOne ==
    \E i \in FixedRefs :
        /\ IsLoneOccurrence(i)
        /\ StartOf(annjson_file, i) >= 1
        /\ IsOccurrence(ShownOf(i)[StartOf(annjson_file, i)])

InCleanSegment(i) ==
    /\ HasSegment(annjson_file[i].part)
    /\ ~IsCorrupted(SegmentWith(annjson_file[i].part))

\* C7: in an index returned, every annotation of a segment without the
\* pattern appears with all its spans as read.
CleanSegmentsPassThrough ==
    result.kind = "annjson" =>
        \A i \in DOMAIN annjson_file :
            InCleanSegment(i) =>
                \E k \in DOMAIN fixed_entities :
                    /\ fixed_entities[k] = i
                    /\ result.entities[k] = annjson_file[i]

\* C7 happens: the index returned holds an annotation of a segment without
\* the pattern, of two spans, next to a rewritten annotation whose spans
\* are not as read.
PassedThroughNextToRewritten ==
    /\ result.kind = "annjson"
    /\ \E i \in DOMAIN annjson_file :
           /\ InCleanSegment(i)
           /\ Len(annjson_file[i].offsets) = 2
    /\ \E j \in FixedRefs : entities[j] # annjson_file[j]

\* C8: every rewritten annotation has the start and the text that rewriting it
\* alone, with a fresh cursor and no running offset, gives.
SharedCursorIsAsAlone ==
    \A i \in FixedRefs :
        /\ Alone(i).asserted
        /\ StartOf(entities, i) = Alone(i).actual_e_start
        /\ TextOf(entities, i) = Alone(i).actual_e_text

\* C9: an index returned holds every annotation read exactly once.
EveryAnnotationOnce ==
    result.kind = "annjson" =>
        \A i \in DOMAIN annjson_file :
            Cardinality({k \in DOMAIN fixed_entities : fixed_entities[k] = i}) = 1

\* C10: a second call on the index a call returned, with the same plain.html,
\* returns an index holding the same annotations.
ReapplyingChangesNothing ==
    (reapplied /\ pc \in {"returned", "raised"}) =>
        /\ result.kind = "annjson"
        /\ Len(result.entities) = Len(annjson_file)
        /\ \A k \in DOMAIN fixed_entities :
               result.entities[k] = annjson_file[fixed_entities[k]]

====
